---- MODULE Spec2Model ----
(***************************************************************************)
(* Model of the schedule generator of task_kanri (src/src/index.tsx):      *)
(* the time helpers, the conflict detector, findAvailableSlot,             *)
(* findDinnerSlot and the handler of POST /api/schedule/generate.          *)
(*                                                                         *)
(* Timestamps are seconds counted from local midnight of the day of the    *)
(* request (baseDate); a Date of the following day is >= 86400.  Clock     *)
(* strings "HH:mm" are pairs <<hours, minutes>>.                           *)
(***************************************************************************)
EXTENDS Integers, Sequences, FiniteSets, TLC

\* bounds of the model
MaxFixed == 2
MaxTasks == 2
MaxPlaced == 2
MaxFixedLive == 1
MaxTasksLive == 1

\* the two concurrent requests the server may be handling
Runs == {1, 2}

\* undefined optional argument / null result of the slot finders
NONE == -1

Mins(n) == n * 60
Clock(h, m) == <<h, m>>
At(h, m) == h * 3600 + m * 60

(***************************************************************************)
(* Time utilities                                                          *)
(***************************************************************************)
getMinutes(t) == (t \div 60) % 60

\* setMinutes(minutes + (15 - remainder)); setSeconds(0): hours kept
ceil15(t) ==
    LET minutes == getMinutes(t)
        remainder == minutes % 15
    IN IF remainder = 0 THEN t
       ELSE (t \div 3600) * 3600 + (minutes + (15 - remainder)) * 60

\* mutant: the clock is printed on a 12-hour dial
formatTime_12h(t) == <<(t \div 3600) % 12, (t \div 60) % 60>>

\* toTimeString().slice(0, 5): wall clock hours and minutes, seconds dropped
formatTime(t) == <<(t \div 3600) % 24, (t \div 60) % 60>>

\* setHours(hours, minutes, 0, 0) on baseDate; 24:00 rolls into the next day
parseTime(timeStr) == timeStr[1] * 3600 + timeStr[2] * 60

hasOverlap(start1, end1, start2, end2) == start1 < end2 /\ end1 > start2

checkConflict(block, blocks) ==
    \E i \in DOMAIN blocks :
        hasOverlap(block.start, block.end, blocks[i].start, blocks[i].end)

(***************************************************************************)
(* Slot finder                                                             *)
(***************************************************************************)
\* mutant: the upper bound is not tested
trySlot_noMax(start, duration, blocks, minTime, maxTime) ==
    IF minTime # NONE /\ start < minTime THEN FALSE
    ELSE ~checkConflict([start |-> start, end |-> start + Mins(duration)], blocks)

trySlot(start, duration, blocks, minTime, maxTime) ==
    IF minTime # NONE /\ start < minTime THEN FALSE
    ELSE LET end == start + Mins(duration)
         IN IF maxTime # NONE /\ end > maxTime THEN FALSE
            ELSE ~checkConflict([start |-> start, end |-> end], blocks)

\* mutant: the forward scan stops at +60 minutes
RECURSIVE scanForward_to60(_, _, _, _, _, _)
scanForward_to60(offset, preferredStart, duration, blocks, minTime, maxTime) ==
    IF offset > 60 THEN NONE
    ELSE LET newStart == preferredStart + Mins(offset)
         IN IF trySlot(newStart, duration, blocks, minTime, maxTime) THEN newStart
            ELSE scanForward_to60(offset + 15, preferredStart, duration, blocks,
                                  minTime, maxTime)

\* for (offset = 15; offset <= 90; offset += 15): first start that trySlot accepts
RECURSIVE scanForward(_, _, _, _, _, _)
scanForward(offset, preferredStart, duration, blocks, minTime, maxTime) ==
    IF offset > 90 THEN NONE
    ELSE LET newStart == preferredStart + Mins(offset)
         IN IF trySlot(newStart, duration, blocks, minTime, maxTime) THEN newStart
            ELSE scanForward(offset + 15, preferredStart, duration, blocks, minTime, maxTime)

\* for (offset = 15; offset <= 180; offset += 15)
RECURSIVE scanBackward(_, _, _, _, _, _)
scanBackward(offset, preferredStart, duration, blocks, minTime, maxTime) ==
    IF offset > 180 THEN NONE
    ELSE LET newStart == preferredStart - Mins(offset)
         IN IF trySlot(newStart, duration, blocks, minTime, maxTime) THEN newStart
            ELSE scanBackward(offset + 15, preferredStart, duration, blocks, minTime, maxTime)

\* mutant: the backward scan runs before the forward scan
findAvailableSlot_backFirst(preferredStart, duration, blocks, minTime, maxTime) ==
    IF trySlot(preferredStart, duration, blocks, minTime, maxTime) THEN preferredStart
    ELSE LET back == scanBackward(15, preferredStart, duration, blocks, minTime, maxTime)
         IN IF back # NONE THEN back
            ELSE scanForward(15, preferredStart, duration, blocks, minTime, maxTime)

findAvailableSlot(preferredStart, duration, blocks, minTime, maxTime) ==
    IF trySlot(preferredStart, duration, blocks, minTime, maxTime) THEN preferredStart
    ELSE LET fwd == scanForward(15, preferredStart, duration, blocks, minTime, maxTime)
         IN IF fwd # NONE THEN fwd
            ELSE scanBackward(15, preferredStart, duration, blocks, minTime, maxTime)

(***************************************************************************)
(* Dinner slot selector                                                    *)
(***************************************************************************)
\* mutant: the candidates in clock order
dinnerCandidates_byClock ==
    << Clock(20, 0), Clock(20, 30), Clock(21, 0), Clock(21, 30), Clock(22, 0), Clock(23, 0) >>

dinnerCandidates ==
    << Clock(21, 0), Clock(20, 30), Clock(21, 30), Clock(20, 0), Clock(22, 0), Clock(23, 0) >>

RECURSIVE dinnerFrom(_, _)
dinnerFrom(i, blocks) ==
    IF i > Len(dinnerCandidates) THEN NONE
    ELSE LET start == parseTime(dinnerCandidates[i])
             end == start + Mins(60)
             maxTime == parseTime(Clock(24, 0))
         IN IF end > maxTime THEN dinnerFrom(i + 1, blocks)
            ELSE IF ~checkConflict([start |-> start, end |-> end], blocks) THEN start
            ELSE dinnerFrom(i + 1, blocks)

\* mutant: dinner takes its first candidate without a conflict test
findDinnerSlot_firstCandidate(blocks) == parseTime(dinnerCandidates[1])

findDinnerSlot(blocks) == dinnerFrom(1, blocks)

(***************************************************************************)
(* Inputs of a run: the clock, the request body and the tasks table        *)
(***************************************************************************)
\* invocation times new Date() may return (seconds from midnight)
NowSet ==
    { At(6, 10), At(9, 0), At(12, 7) + 15, At(15, 40), At(16, 30) + 30, At(22, 0), At(23, 50) }

\* fixed events a request body may carry: {start: "HH:mm", end: "HH:mm", title}
FixedPool ==
    { [start |-> Clock(12, 0),  end |-> Clock(13, 0), title |-> "meeting"],
      [start |-> Clock(16, 45), end |-> Clock(20, 0), title |-> "workshop"],
      [start |-> Clock(19, 30), end |-> Clock(21, 15), title |-> "call"],
      [start |-> Clock(20, 0),  end |-> Clock(24, 0), title |-> "party"] }

\* rows of table tasks with status 'todo' and no due date after today
TaskPool ==
    { [minutes |-> 200, priority |-> "medium", category |-> "future"],
      [minutes |-> 45,  priority |-> "high",   category |-> "now"],
      [minutes |-> 30,  priority |-> "high",   category |-> "maintain"],
      [minutes |-> 15,  priority |-> "high",   category |-> "chore"] }

SeqsUpTo(S, n) == UNION { [1..k -> S] : k \in 0..n }

\* CASE priority WHEN 'high' THEN 3 WHEN 'medium' THEN 2 WHEN 'low' THEN 1 ELSE 0
priorityRank(p) ==
    IF p = "high" THEN 3 ELSE IF p = "medium" THEN 2 ELSE IF p = "low" THEN 1 ELSE 0

\* SELECT ... ORDER BY rank DESC, created_at ASC; rows are stored in creation
\* order and a row's position is its id and title
selectTasks(table) ==
    LET rows == [i \in 1..Len(table) |->
                    [id |-> i, minutes |-> table[i].minutes,
                     priority |-> table[i].priority, category |-> table[i].category]]
        ofRank(k) == SelectSeq(rows, LAMBDA t : priorityRank(t.priority) = k)
    IN ofRank(3) \o ofRank(2) \o ofRank(1) \o ofRank(0)

\* mutant: an item of exactly 45 minutes is not deep
deepTasks_over45(tasks) == SelectSeq(tasks, LAMBDA t : t.minutes > 45)

deepTasks(tasks) == SelectSeq(tasks, LAMBDA t : t.minutes >= 45)
Reverse(seq) == [i \in 1..Len(seq) |-> seq[Len(seq) + 1 - i]]

\* mutant: the light tasks are taken newest first
lightTasks_reversed(tasks) == Reverse(SelectSeq(tasks, LAMBDA t : t.minutes < 45))

lightTasks(tasks) == SelectSeq(tasks, LAMBDA t : t.minutes < 45)
orderTasks(tasks) == deepTasks(tasks) \o lightTasks(tasks)

(***************************************************************************)
(* State of the handler of POST /api/schedule/generate, one per request    *)
(***************************************************************************)
VARIABLES
    pc,               \* position of each run in the handler
    now,              \* new Date() read by the run
    body,             \* body.fixedEvents of the request
    db,               \* table tasks
    planStart,
    blocks,           \* working set: ScheduleBlock[]
    result,           \* TimeSlot[]
    warnings,
    currentReplyTime,
    tasks,            \* rows the query returned, in its order
    tasksToPlace,
    taskIdx,          \* position of the for loop over tasksToPlace
    currentTime,      \* cursor of the backlog placement
    scanLog,          \* history: per task processed, the cursor before and after its scan
    call              \* a single call of a helper function: arguments and result

runVars == << pc, now, body, db, planStart, blocks, result, warnings,
              currentReplyTime, tasks, tasksToPlace, taskIdx, currentTime, scanLog >>
vars == << pc, now, body, db, planStart, blocks, result, warnings,
           currentReplyTime, tasks, tasksToPlace, taskIdx, currentTime, scanLog, call >>

NoCall == [fn |-> "none"]

endOfDay == parseTime(Clock(20, 0))
dayEnd == parseTime(Clock(20, 0))

\* the state of a request that has not arrived
IdleRun ==
    /\ pc = [r \in Runs |-> "idle"]
    /\ now = [r \in Runs |-> 0]
    /\ body = [r \in Runs |-> << >>]
    /\ planStart = [r \in Runs |-> 0]
    /\ blocks = [r \in Runs |-> << >>]
    /\ result = [r \in Runs |-> << >>]
    /\ warnings = [r \in Runs |-> << >>]
    /\ currentReplyTime = [r \in Runs |-> 0]
    /\ tasks = [r \in Runs |-> << >>]
    /\ tasksToPlace = [r \in Runs |-> << >>]
    /\ taskIdx = [r \in Runs |-> 0]
    /\ currentTime = [r \in Runs |-> 0]
    /\ scanLog = [r \in Runs |-> << >>]

\* one request has arrived; the other run never starts
Init ==
    /\ pc = [r \in Runs |-> IF r = 1 THEN "request" ELSE "idle"]
    /\ now \in [Runs -> NowSet \cup {0}]
    /\ \A r \in Runs : (now[r] = 0) <=> (r # 1)
    /\ body \in [Runs -> SeqsUpTo(FixedPool, MaxFixed)]
    /\ \A r \in Runs : r # 1 => body[r] = << >>
    /\ db \in SeqsUpTo(TaskPool, MaxTasks)
    /\ planStart = [r \in Runs |-> 0]
    /\ blocks = [r \in Runs |-> << >>]
    /\ result = [r \in Runs |-> << >>]
    /\ warnings = [r \in Runs |-> << >>]
    /\ currentReplyTime = [r \in Runs |-> 0]
    /\ tasks = [r \in Runs |-> << >>]
    /\ tasksToPlace = [r \in Runs |-> << >>]
    /\ taskIdx = [r \in Runs |-> 0]
    /\ currentTime = [r \in Runs |-> 0]
    /\ scanLog = [r \in Runs |-> << >>]
    /\ call = NoCall

(***************************************************************************)
(* The handler, one action per stage; a loop takes one action per round    *)
(***************************************************************************)
fixedBlock(event) ==
    [start |-> parseTime(event.start), end |-> parseTime(event.end),
     title |-> event.title, type |-> "fixed",
     minutes |-> (parseTime(event.end) - parseTime(event.start)) \div 60]

\* mutant: the clocks of a fixed event are re-formatted from its parsed dates
fixedSlot_reformatted(event) ==
    [start |-> formatTime(parseTime(event.start)), end |-> formatTime(parseTime(event.end)),
     title |-> event.title, type |-> "fixed"]

fixedSlot(event) ==
    [start |-> event.start, end |-> event.end, title |-> event.title, type |-> "fixed"]

timeSlot(block, title) ==
    [start |-> formatTime(block.start), end |-> formatTime(block.end),
     title |-> title, type |-> block.type]

\* lines 1061-1099: body read, anchor time, fixed events into blocks and result
Anchor(r) ==
    /\ pc[r] = "request"
    /\ LET planStartTime == now[r] + Mins(15)
       IN /\ planStart' = [planStart EXCEPT ![r] = ceil15(planStartTime)]
          /\ currentReplyTime' = [currentReplyTime EXCEPT ![r] = ceil15(planStartTime)]
    /\ blocks' = [blocks EXCEPT ![r] = [i \in 1..Len(body[r]) |-> fixedBlock(body[r][i])]]
    /\ result' = [result EXCEPT ![r] = [i \in 1..Len(body[r]) |-> fixedSlot(body[r][i])]]
    /\ warnings' = [warnings EXCEPT ![r] = << >>]
    /\ pc' = [pc EXCEPT ![r] = "reply"]
    /\ UNCHANGED << now, body, db, tasks, tasksToPlace, taskIdx, currentTime, scanLog, call >>

\* the reply block one round of the loop ends up with (lines 1102-1126)
replyBlockAt(t, blks, lower) ==
    LET replyBlock == [start |-> t, end |-> t + Mins(15), title |-> "reply",
                       type |-> "reply", minutes |-> 15]
    IN IF checkConflict(replyBlock, blks)
       THEN LET availableStart == findAvailableSlot(t, 15, blks, lower, endOfDay)
            IN IF availableStart # NONE
               THEN [replyBlock EXCEPT !.start = availableStart,
                                       !.end = availableStart + Mins(15)]
               ELSE replyBlock
       ELSE replyBlock

\* mutant: a reply window that cannot be placed is reported
ReplyStep_warnsOnDrop(r) ==
    /\ pc[r] = "reply"
    /\ currentReplyTime[r] < endOfDay
    /\ LET replyBlock == replyBlockAt(currentReplyTime[r], blocks[r], planStart[r])
       IN IF ~checkConflict(replyBlock, blocks[r])
          THEN /\ blocks' = [blocks EXCEPT ![r] = Append(@, replyBlock)]
               /\ result' = [result EXCEPT ![r] = Append(@, timeSlot(replyBlock, "reply"))]
               /\ UNCHANGED warnings
          ELSE /\ warnings' = [warnings EXCEPT ![r] =
                                  Append(@, [kind |-> "reply", title |-> "", minutes |-> 15])]
               /\ UNCHANGED << blocks, result >>
    /\ currentReplyTime' = [currentReplyTime EXCEPT ![r] = @ + Mins(3 * 60)]
    /\ UNCHANGED << pc, now, body, db, planStart, tasks, tasksToPlace,
                    taskIdx, currentTime, scanLog, call >>

\* mutant: the next step is counted from where the window was placed
ReplyStep_fromPlaced(r) ==
    /\ pc[r] = "reply"
    /\ currentReplyTime[r] < endOfDay
    /\ LET replyBlock == replyBlockAt(currentReplyTime[r], blocks[r], planStart[r])
       IN /\ IF ~checkConflict(replyBlock, blocks[r])
             THEN /\ blocks' = [blocks EXCEPT ![r] = Append(@, replyBlock)]
                  /\ result' = [result EXCEPT ![r] = Append(@, timeSlot(replyBlock, "reply"))]
             ELSE UNCHANGED << blocks, result >>
          /\ currentReplyTime' = [currentReplyTime EXCEPT ![r] = replyBlock.start + Mins(3 * 60)]
    /\ UNCHANGED << pc, now, body, db, planStart, warnings, tasks, tasksToPlace,
                    taskIdx, currentTime, scanLog, call >>

\* mutant: the reply block is committed without the second conflict check
ReplyStep_noRecheck(r) ==
    /\ pc[r] = "reply"
    /\ currentReplyTime[r] < endOfDay
    /\ LET replyBlock == replyBlockAt(currentReplyTime[r], blocks[r], planStart[r])
       IN /\ blocks' = [blocks EXCEPT ![r] = Append(@, replyBlock)]
          /\ result' = [result EXCEPT ![r] = Append(@, timeSlot(replyBlock, "reply"))]
    /\ currentReplyTime' = [currentReplyTime EXCEPT ![r] = @ + Mins(3 * 60)]
    /\ UNCHANGED << pc, now, body, db, planStart, warnings, tasks, tasksToPlace,
                    taskIdx, currentTime, scanLog, call >>

\* mutant: a dropped reply window does not move the loop to the next step time
ReplyStep_stuckOnDrop(r) ==
    /\ pc[r] = "reply"
    /\ currentReplyTime[r] < endOfDay
    /\ LET replyBlock == replyBlockAt(currentReplyTime[r], blocks[r], planStart[r])
       IN IF ~checkConflict(replyBlock, blocks[r])
          THEN /\ blocks' = [blocks EXCEPT ![r] = Append(@, replyBlock)]
               /\ result' = [result EXCEPT ![r] = Append(@, timeSlot(replyBlock, "reply"))]
               /\ currentReplyTime' = [currentReplyTime EXCEPT ![r] = @ + Mins(3 * 60)]
          ELSE UNCHANGED << blocks, result, currentReplyTime >>
    /\ UNCHANGED << pc, now, body, db, planStart, warnings, tasks, tasksToPlace,
                    taskIdx, currentTime, scanLog, call >>

\* one round of while (currentReplyTime < endOfDay), lines 1101-1140
ReplyStep(r) ==
    /\ pc[r] = "reply"
    /\ currentReplyTime[r] < endOfDay
    /\ LET replyBlock == replyBlockAt(currentReplyTime[r], blocks[r], planStart[r])
       IN IF ~checkConflict(replyBlock, blocks[r])
          THEN /\ blocks' = [blocks EXCEPT ![r] = Append(@, replyBlock)]
               /\ result' = [result EXCEPT ![r] = Append(@, timeSlot(replyBlock, "reply"))]
          ELSE UNCHANGED << blocks, result >>
    /\ currentReplyTime' = [currentReplyTime EXCEPT ![r] = @ + Mins(3 * 60)]
    /\ UNCHANGED << pc, now, body, db, planStart, warnings, tasks, tasksToPlace,
                    taskIdx, currentTime, scanLog, call >>

\* mutant: lunch is tried at its preferred start only
Lunch_onlyPreferred(r) ==
    /\ pc[r] = "reply"
    /\ ~(currentReplyTime[r] < endOfDay)
    /\ LET lunchStart == ceil15(now[r] + Mins(6 * 60))
           lunchBlock == [start |-> lunchStart, end |-> lunchStart + Mins(60),
                          title |-> "lunch", type |-> "lunch", minutes |-> 60]
       IN IF trySlot(lunchStart, 60, blocks[r], planStart[r], parseTime(Clock(20, 0)))
          THEN /\ blocks' = [blocks EXCEPT ![r] = Append(@, lunchBlock)]
               /\ result' = [result EXCEPT ![r] = Append(@, timeSlot(lunchBlock, "lunch"))]
               /\ UNCHANGED warnings
          ELSE /\ warnings' = [warnings EXCEPT ![r] =
                                  Append(@, [kind |-> "lunch", title |-> "", minutes |-> 60])]
               /\ UNCHANGED << blocks, result >>
    /\ pc' = [pc EXCEPT ![r] = "dinner"]
    /\ UNCHANGED << now, body, db, planStart, currentReplyTime, tasks, tasksToPlace,
                    taskIdx, currentTime, scanLog, call >>

\* lunch, lines 1142-1173, entered when the reply loop ends
Lunch(r) ==
    /\ pc[r] = "reply"
    /\ ~(currentReplyTime[r] < endOfDay)
    /\ LET lunchPreferred == now[r] + Mins(6 * 60)
           lunchStart == ceil15(lunchPreferred)
           dinnerTimeStart == parseTime(Clock(20, 0))
           availableLunchStart ==
               findAvailableSlot(lunchStart, 60, blocks[r], planStart[r], dinnerTimeStart)
           lunchBlock == [start |-> availableLunchStart,
                          end |-> availableLunchStart + Mins(60),
                          title |-> "lunch", type |-> "lunch", minutes |-> 60]
       IN IF availableLunchStart # NONE
          THEN /\ blocks' = [blocks EXCEPT ![r] = Append(@, lunchBlock)]
               /\ result' = [result EXCEPT ![r] = Append(@, timeSlot(lunchBlock, "lunch"))]
               /\ UNCHANGED warnings
          ELSE /\ warnings' = [warnings EXCEPT ![r] = Append(@, [kind |-> "lunch", title |-> "", minutes |-> 60])]
               /\ UNCHANGED << blocks, result >>
    /\ pc' = [pc EXCEPT ![r] = "dinner"]
    /\ UNCHANGED << now, body, db, planStart, currentReplyTime, tasks, tasksToPlace,
                    taskIdx, currentTime, scanLog, call >>

\* mutant: a failed dinner search ends the run after its warning
Dinner_abortsRun(r) ==
    /\ pc[r] = "dinner"
    /\ LET dinnerStart == findDinnerSlot(blocks[r])
           dinnerBlock == [start |-> dinnerStart, end |-> dinnerStart + Mins(60),
                           title |-> "dinner", type |-> "dinner", minutes |-> 60]
       IN IF dinnerStart # NONE
          THEN /\ blocks' = [blocks EXCEPT ![r] = Append(@, dinnerBlock)]
               /\ result' = [result EXCEPT ![r] = Append(@, timeSlot(dinnerBlock, "dinner"))]
               /\ pc' = [pc EXCEPT ![r] = "family"]
               /\ UNCHANGED warnings
          ELSE /\ warnings' = [warnings EXCEPT ![r] =
                                  Append(@, [kind |-> "dinner", title |-> "", minutes |-> 60])]
               /\ pc' = [pc EXCEPT ![r] = "done"]
               /\ UNCHANGED << blocks, result >>
    /\ UNCHANGED << now, body, db, planStart, currentReplyTime, tasks, tasksToPlace,
                    taskIdx, currentTime, scanLog, call >>

\* mutant: the dinner block is put at the front of the working set
Dinner_unshift(r) ==
    /\ pc[r] = "dinner"
    /\ LET dinnerStart == findDinnerSlot(blocks[r])
           dinnerBlock == [start |-> dinnerStart, end |-> dinnerStart + Mins(60),
                           title |-> "dinner", type |-> "dinner", minutes |-> 60]
       IN IF dinnerStart # NONE
          THEN /\ blocks' = [blocks EXCEPT ![r] = << dinnerBlock >> \o @]
               /\ result' = [result EXCEPT ![r] = Append(@, timeSlot(dinnerBlock, "dinner"))]
               /\ UNCHANGED warnings
          ELSE /\ warnings' = [warnings EXCEPT ![r] = Append(@, [kind |-> "dinner", title |-> "", minutes |-> 60])]
               /\ UNCHANGED << blocks, result >>
    /\ pc' = [pc EXCEPT ![r] = "family"]
    /\ UNCHANGED << now, body, db, planStart, currentReplyTime, tasks, tasksToPlace,
                    taskIdx, currentTime, scanLog, call >>

\* dinner, lines 1175-1196
Dinner(r) ==
    /\ pc[r] = "dinner"
    /\ LET dinnerStart == findDinnerSlot(blocks[r])
           dinnerBlock == [start |-> dinnerStart, end |-> dinnerStart + Mins(60),
                           title |-> "dinner", type |-> "dinner", minutes |-> 60]
       IN IF dinnerStart # NONE
          THEN /\ blocks' = [blocks EXCEPT ![r] = Append(@, dinnerBlock)]
               /\ result' = [result EXCEPT ![r] = Append(@, timeSlot(dinnerBlock, "dinner"))]
               /\ UNCHANGED warnings
          ELSE /\ warnings' = [warnings EXCEPT ![r] = Append(@, [kind |-> "dinner", title |-> "", minutes |-> 60])]
               /\ UNCHANGED << blocks, result >>
    /\ pc' = [pc EXCEPT ![r] = "family"]
    /\ UNCHANGED << now, body, db, planStart, currentReplyTime, tasks, tasksToPlace,
                    taskIdx, currentTime, scanLog, call >>

\* mutant: the family block is also pushed to the working set
Family_intoBlocks(r) ==
    /\ pc[r] = "family"
    /\ LET familyStart == parseTime(Clock(20, 0))
           familyEnd == parseTime(Clock(24, 0))
       IN /\ result' = [result EXCEPT ![r] =
                           Append(@, [start |-> formatTime(familyStart),
                                      end |-> formatTime(familyEnd),
                                      title |-> "family", type |-> "family"])]
          /\ blocks' = [blocks EXCEPT ![r] =
                           Append(@, [start |-> familyStart, end |-> familyEnd,
                                      title |-> "family", type |-> "family",
                                      minutes |-> 240])]
    /\ pc' = [pc EXCEPT ![r] = "fetch"]
    /\ UNCHANGED << now, body, db, planStart, warnings, currentReplyTime,
                    tasks, tasksToPlace, taskIdx, currentTime, scanLog, call >>

\* family time, lines 1198-1207: pushed to result only
Family(r) ==
    /\ pc[r] = "family"
    /\ LET familyStart == parseTime(Clock(20, 0))
           familyEnd == parseTime(Clock(24, 0))
       IN result' = [result EXCEPT ![r] =
                        Append(@, [start |-> formatTime(familyStart),
                                   end |-> formatTime(familyEnd),
                                   title |-> "family", type |-> "family"])]
    /\ pc' = [pc EXCEPT ![r] = "fetch"]
    /\ UNCHANGED << now, body, db, planStart, blocks, warnings, currentReplyTime,
                    tasks, tasksToPlace, taskIdx, currentTime, scanLog, call >>

\* mutant: the backlog cursor is one module-level variable, set by every run
FetchTasks_sharedCursor(r) ==
    /\ pc[r] = "fetch"
    /\ tasks' = [tasks EXCEPT ![r] = selectTasks(db)]
    /\ tasksToPlace' = [tasksToPlace EXCEPT ![r] = orderTasks(selectTasks(db))]
    /\ taskIdx' = [taskIdx EXCEPT ![r] = 1]
    /\ currentTime' = [q \in Runs |-> planStart[r]]
    /\ pc' = [pc EXCEPT ![r] = "backlog"]
    /\ UNCHANGED << now, body, db, planStart, blocks, result, warnings,
                    currentReplyTime, scanLog, call >>

\* the awaited query and the partition, lines 1209-1224
FetchTasks(r) ==
    /\ pc[r] = "fetch"
    /\ tasks' = [tasks EXCEPT ![r] = selectTasks(db)]
    /\ tasksToPlace' = [tasksToPlace EXCEPT ![r] = orderTasks(selectTasks(db))]
    /\ taskIdx' = [taskIdx EXCEPT ![r] = 1]
    /\ currentTime' = [currentTime EXCEPT ![r] = planStart[r]]
    /\ pc' = [pc EXCEPT ![r] = "backlog"]
    /\ UNCHANGED << now, body, db, planStart, blocks, result, warnings,
                    currentReplyTime, scanLog, call >>

\* mutant: a scan that gives up sends the cursor back to the start of the day
RECURSIVE scanTask_rewindToDayStart(_, _, _)
scanTask_rewindToDayStart(cur, minutes, blks) ==
    IF ~(cur < dayEnd) THEN [placed |-> FALSE, start |-> NONE, currentTime |-> parseTime(Clock(0, 0))]
    ELSE LET taskEnd == cur + Mins(minutes)
         IN IF taskEnd > dayEnd
            THEN [placed |-> FALSE, start |-> NONE, currentTime |-> parseTime(Clock(0, 0))]
            ELSE IF ~checkConflict([start |-> cur, end |-> taskEnd], blks)
            THEN [placed |-> TRUE, start |-> cur, currentTime |-> taskEnd]
            ELSE scanTask_rewindToDayStart(cur + Mins(15), minutes, blks)

\* mutant: the end of a candidate is not tested against dayEnd
RECURSIVE scanTask_noDayEnd(_, _, _)
scanTask_noDayEnd(cur, minutes, blks) ==
    IF ~(cur < dayEnd) THEN [placed |-> FALSE, start |-> NONE, currentTime |-> cur]
    ELSE LET taskEnd == cur + Mins(minutes)
         IN IF ~checkConflict([start |-> cur, end |-> taskEnd], blks)
            THEN [placed |-> TRUE, start |-> cur, currentTime |-> taskEnd]
            ELSE scanTask_noDayEnd(cur + Mins(15), minutes, blks)

\* mutant: a placement leaves the cursor at the start of the placed block
RECURSIVE scanTask_cursorAtStart(_, _, _)
scanTask_cursorAtStart(cur, minutes, blks) ==
    IF ~(cur < dayEnd) THEN [placed |-> FALSE, start |-> NONE, currentTime |-> cur]
    ELSE LET taskEnd == cur + Mins(minutes)
         IN IF taskEnd > dayEnd
            THEN [placed |-> FALSE, start |-> NONE, currentTime |-> cur]
            ELSE IF ~checkConflict([start |-> cur, end |-> taskEnd], blks)
            THEN [placed |-> TRUE, start |-> cur, currentTime |-> cur]
            ELSE scanTask_cursorAtStart(cur + Mins(15), minutes, blks)

\* while (currentTime < dayEnd && !placed), lines 1229-1265: where the scan of one
\* task leaves the cursor and whether the task was placed
RECURSIVE scanTask(_, _, _)
scanTask(cur, minutes, blks) ==
    IF ~(cur < dayEnd) THEN [placed |-> FALSE, start |-> NONE, currentTime |-> cur]
    ELSE LET taskEnd == cur + Mins(minutes)
         IN IF taskEnd > dayEnd
            THEN [placed |-> FALSE, start |-> NONE, currentTime |-> cur]
            ELSE IF ~checkConflict([start |-> cur, end |-> taskEnd], blks)
            THEN [placed |-> TRUE, start |-> cur, currentTime |-> taskEnd]
            ELSE scanTask(cur + Mins(15), minutes, blks)

\* mutant: the placed flag is not set, so a placed task is warned as well
PlaceTask_placedFlagLost(r) ==
    /\ pc[r] = "backlog"
    /\ taskIdx[r] <= Len(tasksToPlace[r])
    /\ LET task == tasksToPlace[r][taskIdx[r]]
           scan == scanTask(currentTime[r], task.minutes, blocks[r])
           taskBlock == [start |-> scan.start, end |-> scan.start + Mins(task.minutes),
                         title |-> ToString(task.id), type |-> task.category,
                         minutes |-> task.minutes]
       IN /\ currentTime' = [currentTime EXCEPT ![r] = scan.currentTime]
          /\ scanLog' = [scanLog EXCEPT ![r] =
                            Append(@, [id |-> task.id, minutes |-> task.minutes,
                                       from |-> currentTime[r], to |-> scan.currentTime,
                                       placed |-> scan.placed, start |-> scan.start,
                                       nblocks |-> Len(blocks[r])])]
          /\ warnings' = [warnings EXCEPT ![r] =
                             Append(@, [kind |-> "task", title |-> ToString(task.id),
                                        minutes |-> task.minutes])]
          /\ IF scan.placed
             THEN /\ blocks' = [blocks EXCEPT ![r] = Append(@, taskBlock)]
                  /\ result' = [result EXCEPT ![r] = Append(@, timeSlot(taskBlock, ToString(task.id)))]
             ELSE UNCHANGED << blocks, result >>
    /\ taskIdx' = [taskIdx EXCEPT ![r] = @ + 1]
    /\ UNCHANGED << pc, now, body, db, planStart, currentReplyTime, tasks,
                    tasksToPlace, call >>

\* one round of for (const task of tasksToPlace), lines 1226-1270
PlaceTask(r) ==
    /\ pc[r] = "backlog"
    /\ taskIdx[r] <= Len(tasksToPlace[r])
    /\ LET task == tasksToPlace[r][taskIdx[r]]
           scan == scanTask(currentTime[r], task.minutes, blocks[r])
           taskBlock == [start |-> scan.start, end |-> scan.start + Mins(task.minutes),
                         title |-> ToString(task.id), type |-> task.category,
                         minutes |-> task.minutes]
       IN /\ currentTime' = [currentTime EXCEPT ![r] = scan.currentTime]
          /\ scanLog' = [scanLog EXCEPT ![r] =
                            Append(@, [id |-> task.id, minutes |-> task.minutes,
                                       from |-> currentTime[r], to |-> scan.currentTime,
                                       placed |-> scan.placed, start |-> scan.start,
                                       nblocks |-> Len(blocks[r])])]
          /\ IF scan.placed
             THEN /\ blocks' = [blocks EXCEPT ![r] = Append(@, taskBlock)]
                  /\ result' = [result EXCEPT ![r] = Append(@, timeSlot(taskBlock, ToString(task.id)))]
                  /\ UNCHANGED warnings
             ELSE /\ warnings' = [warnings EXCEPT ![r] =
                                     Append(@, [kind |-> "task", title |-> ToString(task.id),
                                                minutes |-> task.minutes])]
                  /\ UNCHANGED << blocks, result >>
    /\ taskIdx' = [taskIdx EXCEPT ![r] = @ + 1]
    /\ UNCHANGED << pc, now, body, db, planStart, currentReplyTime, tasks,
                    tasksToPlace, call >>

\* a.start.localeCompare(b.start) < 0 for zero-padded "HH:mm"
clockBefore(a, b) == a[1] < b[1] \/ (a[1] = b[1] /\ a[2] < b[2])

\* mutant: the slots are returned in the order they were pushed
sortByStart_unsorted(slots) == slots

\* result.sort(compare), line 1273. Array.prototype.sort is stable: a slot goes
\* after every slot whose start compares before its own and after the earlier
\* slots with the same start
sortByStart(slots) ==
    LET n == Len(slots)
        precedes(i, j) == \/ clockBefore(slots[i].start, slots[j].start)
                          \/ (~clockBefore(slots[j].start, slots[i].start) /\ i < j)
        place(i) == Cardinality({ j \in 1..n : precedes(j, i) }) + 1
    IN [k \in 1..n |-> slots[CHOOSE i \in 1..n : place(i) = k]]

\* lines 1272-1300: sort and respond
Finalize(r) ==
    /\ pc[r] = "backlog"
    /\ taskIdx[r] > Len(tasksToPlace[r])
    /\ result' = [result EXCEPT ![r] = sortByStart(@)]
    /\ pc' = [pc EXCEPT ![r] = "done"]
    /\ UNCHANGED << now, body, db, planStart, blocks, warnings, currentReplyTime,
                    tasks, tasksToPlace, taskIdx, currentTime, scanLog, call >>

Next ==
    \E r \in Runs :
        \/ Anchor(r)
        \/ ReplyStep(r)
        \/ Lunch(r)
        \/ Dinner(r)
        \/ Family(r)
        \/ FetchTasks(r)
        \/ PlaceTask(r)
        \/ Finalize(r)

Spec == Init /\ [][Next]_vars

\* two requests are being handled at once. The steps of the two runs interleave
\* at every stage, which includes the interleavings at the awaits of lines 1061
\* and 1209-1212
NowPoolTwo == { At(9, 0), At(16, 30) + 30, At(22, 0) }
FixedNamed(title) == CHOOSE e \in FixedPool : e.title = title
TaskRow(minutes) == CHOOSE t \in TaskPool : t.minutes = minutes
BodyPoolTwo ==
    { << >>, << FixedNamed("meeting") >>, << FixedNamed("workshop"), FixedNamed("party") >> }
TablePoolTwo == { << >>, << TaskRow(200) >>, << TaskRow(15), TaskRow(45) >> }

InitTwo ==
    /\ pc = [r \in Runs |-> "request"]
    /\ now \in [Runs -> NowPoolTwo]
    /\ body \in [Runs -> BodyPoolTwo]
    /\ db \in TablePoolTwo
    /\ planStart = [r \in Runs |-> 0]
    /\ blocks = [r \in Runs |-> << >>]
    /\ result = [r \in Runs |-> << >>]
    /\ warnings = [r \in Runs |-> << >>]
    /\ currentReplyTime = [r \in Runs |-> 0]
    /\ tasks = [r \in Runs |-> << >>]
    /\ tasksToPlace = [r \in Runs |-> << >>]
    /\ taskIdx = [r \in Runs |-> 0]
    /\ currentTime = [r \in Runs |-> 0]
    /\ scanLog = [r \in Runs |-> << >>]
    /\ call = NoCall

SpecTwo == InitTwo /\ [][Next]_vars

\* the handler is one async function: once the request has arrived the runtime
\* runs it on, through its two awaits, until it returns
InitLive == Init /\ Len(body[1]) <= MaxFixedLive /\ Len(db) <= MaxTasksLive
SpecLive == InitLive /\ [][Next]_vars /\ WF_vars(Next)

(***************************************************************************)
(* The helper functions called on their own: one call per behaviour, its   *)
(* arguments drawn from the pools below                                    *)
(***************************************************************************)
BlockPool ==
    { [start |-> At(12, 0),  end |-> At(13, 0)],
      [start |-> At(14, 0),  end |-> At(15, 30)],
      [start |-> At(15, 30), end |-> At(16, 15)],
      [start |-> At(20, 0),  end |-> At(24, 0)],
      [start |-> At(20, 30), end |-> At(21, 30)],
      [start |-> At(21, 0),  end |-> At(22, 0)],
      [start |-> At(21, 30), end |-> At(23, 30)] }

PreferredPool == { At(12, 0), At(15, 0), At(18, 30), At(9, 15) + 30 }
DurationPool == { 15, 60 }
MinTimePool == { NONE, At(9, 15), At(14, 0) }
MaxTimePool == { NONE, At(15, 30), At(20, 0) }

SlotCalls ==
    [fn : {"findAvailableSlot"}, preferredStart : PreferredPool, duration : DurationPool,
     blocks : SeqsUpTo(BlockPool, MaxPlaced), minTime : MinTimePool,
     maxTime : MaxTimePool, done : {FALSE}, result : {NONE}]

DinnerCalls ==
    [fn : {"findDinnerSlot"}, preferredStart : {NONE}, duration : {60},
     blocks : SeqsUpTo(BlockPool, MaxPlaced), minTime : {NONE},
     maxTime : {NONE}, done : {FALSE}, result : {NONE}]

\* timestamps of the base date at second granularity: every minute of the day
\* with 0, 1, 30 and 59 seconds
SecondsPool == { 0, 1, 30, 59 }
TimestampPool == { h * 3600 + m * 60 + sec : h \in 0..23, m \in 0..59, sec \in SecondsPool }

\* timestamps with zero seconds from 00:00 up to the 24:00 marker
MinuteStamps == { m * 60 : m \in 0..(24 * 60) }

\* clock strings "00:00" .. "23:59" and "24:00"
ClockPool == { Clock(h, m) : h \in 0..23, m \in 0..59 } \cup { Clock(24, 0) }

Ceil15Calls == [fn : {"ceil15"}, date : TimestampPool, done : {FALSE}, result : {NONE}]
FormatTimeCalls == [fn : {"formatTime"}, date : MinuteStamps, done : {FALSE}, result : {NONE}]
ParseTimeCalls == [fn : {"parseTime"}, timeStr : ClockPool, done : {FALSE}, result : {NONE}]

InitFn ==
    /\ IdleRun
    /\ db = << >>
    /\ call \in SlotCalls \cup DinnerCalls \cup Ceil15Calls \cup FormatTimeCalls
                \cup ParseTimeCalls

CallFindAvailableSlot ==
    /\ call.fn = "findAvailableSlot"
    /\ ~call.done
    /\ call' = [call EXCEPT !.done = TRUE,
                            !.result = findAvailableSlot(call.preferredStart, call.duration,
                                                         call.blocks, call.minTime,
                                                         call.maxTime)]
    /\ UNCHANGED runVars

CallFindDinnerSlot ==
    /\ call.fn = "findDinnerSlot"
    /\ ~call.done
    /\ call' = [call EXCEPT !.done = TRUE, !.result = findDinnerSlot(call.blocks)]
    /\ UNCHANGED runVars

CallCeil15 ==
    /\ call.fn = "ceil15"
    /\ ~call.done
    /\ call' = [call EXCEPT !.done = TRUE, !.result = ceil15(call.date)]
    /\ UNCHANGED runVars

CallFormatTime ==
    /\ call.fn = "formatTime"
    /\ ~call.done
    /\ call' = [call EXCEPT !.done = TRUE, !.result = formatTime(call.date)]
    /\ UNCHANGED runVars

CallParseTime ==
    /\ call.fn = "parseTime"
    /\ ~call.done
    /\ call' = [call EXCEPT !.done = TRUE, !.result = parseTime(call.timeStr)]
    /\ UNCHANGED runVars

NextFn ==
    \/ CallFindAvailableSlot
    \/ CallFindDinnerSlot
    \/ CallCeil15
    \/ CallFormatTime
    \/ CallParseTime

SpecFn == InitFn /\ [][NextFn]_vars

(***************************************************************************)
(* Properties of the slot finders (checked under SpecFn)                   *)
(***************************************************************************)
SlotCallDone == call.fn = "findAvailableSlot" /\ call.done
DinnerCallDone == call.fn = "findDinnerSlot" /\ call.done

\* a start is valid for the finished call: inside the supplied bounds and free
ValidStart(s) ==
    /\ (call.minTime # NONE => s >= call.minTime)
    /\ (call.maxTime # NONE => s + call.duration * 60 <= call.maxTime)
    /\ \A i \in 1..Len(call.blocks) :
          ~(s < call.blocks[i].end /\ s + call.duration * 60 > call.blocks[i].start)

\* the 19 candidate offsets in minutes, in the order of the contract
CandidateOffsets ==
    << 0, 15, 30, 45, 60, 75, 90,
       -15, -30, -45, -60, -75, -90, -105, -120, -135, -150, -165, -180 >>

CandidateAt(i) == call.preferredStart + CandidateOffsets[i] * 60

ValidIndexes == { i \in 1..Len(CandidateOffsets) : ValidStart(CandidateAt(i)) }

C7_ResultWithinBounds ==
    (SlotCallDone /\ call.result # NONE) =>
        /\ (call.minTime # NONE => call.result >= call.minTime)
        /\ (call.maxTime # NONE =>
               /\ call.result + call.duration * 60 <= call.maxTime
               /\ call.result < call.maxTime)

\* a start was returned although the preferred block itself crosses the upper bound
C7_Witness ==
    /\ SlotCallDone
    /\ call.minTime # NONE /\ call.maxTime # NONE
    /\ call.preferredStart + call.duration * 60 > call.maxTime
    /\ call.result # NONE

Distance(a, b) == IF a >= b THEN a - b ELSE b - a

\* the 15-minute grid within the search radius [preferredStart - 180, preferredStart + 90]
RadiusGrid == { call.preferredStart + k * 15 * 60 : k \in -12..6 }

\* C8 as stated: no valid candidate within the radius is strictly closer to
\* preferredStart than the returned start.
C8_NearestInRadius ==
    (SlotCallDone /\ call.result # NONE) =>
        \A c \in RadiusGrid :
            ValidStart(c) =>
                Distance(c, call.preferredStart) >= Distance(call.result, call.preferredStart)

\* C8 amended: the returned start is the nearest valid candidate at or after
\* preferredStart (up to +90 minutes) when there is one, and otherwise the nearest
\* valid candidate before preferredStart (down to -180 minutes).
C8_NearestPerDirection ==
    (SlotCallDone /\ call.result # NONE) =>
        LET later == { c \in RadiusGrid : c >= call.preferredStart /\ ValidStart(c) }
            earlier == { c \in RadiusGrid : c < call.preferredStart /\ ValidStart(c) }
        IN IF later # {}
           THEN call.result \in later /\ \A c \in later : call.result <= c
           ELSE call.result \in earlier /\ \A c \in earlier : call.result >= c

\* a later candidate was returned although a valid earlier one is strictly closer
C8_Witness ==
    /\ SlotCallDone
    /\ call.result > call.preferredStart
    /\ \E c \in RadiusGrid :
          /\ c < call.preferredStart
          /\ ValidStart(c)
          /\ Distance(c, call.preferredStart) < Distance(call.result, call.preferredStart)

\* the literal dinner candidates in the order of the contract
DinnerOrder == << At(21, 0), At(20, 30), At(21, 30), At(20, 0), At(22, 0), At(23, 0) >>

DinnerAccepted(i) ==
    /\ DinnerOrder[i] + 60 * 60 <= At(24, 0)
    /\ \A k \in 1..Len(call.blocks) :
          ~(DinnerOrder[i] < call.blocks[k].end
              /\ DinnerOrder[i] + 60 * 60 > call.blocks[k].start)

\* C9: findDinnerSlot returns the first candidate of 21:00, 20:30, 21:30, 20:00,
\* 22:00, 23:00 whose 60-minute block ends by 24:00 and overlaps no block, and
\* NONE exactly when all six are rejected.
C9_FirstDinnerCandidate ==
    DinnerCallDone =>
        LET accepted == { i \in 1..6 : DinnerAccepted(i) }
        IN IF accepted = {} THEN call.result = NONE
           ELSE \E i \in accepted :
                   /\ call.result = DinnerOrder[i]
                   /\ \A j \in accepted : i <= j

\* the first four candidates are taken and dinner lands on 22:00
C9_Witness == DinnerCallDone /\ call.result = At(22, 0)

(***************************************************************************)
(* Properties of a generation run (checked under Spec)                     *)
(***************************************************************************)
Started(r) == pc[r] \notin {"idle", "request"}
AfterDinner(r) == pc[r] \in {"family", "fetch", "backlog", "done"}
AfterFamily(r) == pc[r] \in {"fetch", "backlog", "done"}

\* the half-open overlap test of two blocks
Overlap(a, b) == a.start < b.end /\ a.end > b.start

OverlappingPairs(r) ==
    { p \in (DOMAIN blocks[r]) \X (DOMAIN blocks[r]) :
        p[1] < p[2] /\ Overlap(blocks[r][p[1]], blocks[r][p[2]]) }

\* C1 as stated: at every point of a run no two blocks of the working set overlap,
\* whatever the fixed events are.
C1_NoTwoBlocksOverlap == \A r \in Runs : OverlappingPairs(r) = {}

\* C1 amended: at every point of a run, two blocks of the working set overlap
\* only if both are fixed events.
C1_OverlapOnlyBetweenFixed ==
    \A r \in Runs :
        \A p \in OverlappingPairs(r) :
            blocks[r][p[1]].type = "fixed" /\ blocks[r][p[2]].type = "fixed"

\* a finished run with two overlapping fixed events and generated blocks around them
C1_Witness ==
    /\ pc[1] = "done"
    /\ OverlappingPairs(1) # {}
    /\ \E i \in DOMAIN blocks[1] : blocks[1][i].type = "reply"
    /\ \E i \in DOMAIN blocks[1] : blocks[1][i].type = "lunch"
    /\ \E i \in DOMAIN scanLog[1] : scanLog[1][i].placed

\* C2: an item that gets a warning leaves the cursor where it was before its scan.
C2_FailedItemKeepsCursor ==
    \A r \in Runs :
        \A i \in DOMAIN scanLog[r] :
            ~scanLog[r][i].placed => scanLog[r][i].to = scanLog[r][i].from

\* the working set as it was when the i-th processed task was scanned
BlocksSeenBy(r, i) == SubSeq(blocks[r], 1, scanLog[r][i].nblocks)

\* candidate start c0 + 15k minutes at which a block of the given length ends by
\* 20:00 and overlaps nothing of the working set ws
FreeCandidateFrom(c0, minutes, ws) ==
    \E k \in 0..96 :
        LET c == c0 + k * 15 * 60
        IN /\ c + minutes * 60 <= At(20, 0)
           /\ \A n \in DOMAIN ws : ~Overlap([start |-> c, end |-> c + minutes * 60], ws[n])

\* C3: after a warned item X, a following item Y that has a free candidate counted
\* from the cursor held before X's scan is placed.
C3_FailedItemConsumesNoTime ==
    \A r \in Runs :
        \A i, j \in DOMAIN scanLog[r] :
            (/\ i < j
             /\ ~scanLog[r][i].placed
             /\ FreeCandidateFrom(scanLog[r][i].from, scanLog[r][j].minutes,
                                  BlocksSeenBy(r, j)))
                => scanLog[r][j].placed

\* position of a task in the list the query returned
PositionOf(r, id) == CHOOSE i \in DOMAIN tasks[r] : tasks[r][i].id = id
TaskOf(r, id) == tasks[r][PositionOf(r, id)]
IsDeep(t) == t.minutes >= 45

\* pairs of placed tasks of equal priority, the first earlier in the supplied list
PlacedEqualPriorityPairs(r) ==
    { p \in (DOMAIN scanLog[r]) \X (DOMAIN scanLog[r]) :
        /\ scanLog[r][p[1]].placed /\ scanLog[r][p[2]].placed
        /\ PositionOf(r, scanLog[r][p[1]].id) < PositionOf(r, scanLog[r][p[2]].id)
        /\ TaskOf(r, scanLog[r][p[1]].id).priority = TaskOf(r, scanLog[r][p[2]].id).priority }

C5_NothingBeforePlanStart ==
    \A r \in Runs :
        Started(r) =>
            \A i \in DOMAIN blocks[r] :
                blocks[r][i].type # "fixed" => blocks[r][i].start >= planStart[r]

\* all six dinner candidates overlap a fixed event of the request
AllDinnerCandidatesTaken(r) ==
    \A c \in { At(21, 0), At(20, 30), At(21, 30), At(20, 0), At(22, 0), At(23, 0) } :
        \E i \in DOMAIN body[r] :
            Overlap([start |-> c, end |-> c + 60 * 60],
                    [start |-> body[r][i].start[1] * 3600 + body[r][i].start[2] * 60,
                     end |-> body[r][i].end[1] * 3600 + body[r][i].end[2] * 60])

CountOf(seq, Test(_)) == Cardinality({ i \in DOMAIN seq : Test(seq[i]) })

\* C10: when fixed events take all six dinner candidates, the run has exactly one
\* dinner warning and no dinner block or slot, goes on to the family block and to
\* the backlog, and gives every task an outcome.
C10_DinnerFailureIsLocal ==
    \A r \in Runs :
        (Started(r) /\ AllDinnerCandidatesTaken(r)) =>
            /\ CountOf(blocks[r], LAMBDA b : b.type = "dinner") = 0
            /\ CountOf(result[r], LAMBDA x : x.type = "dinner") = 0
            /\ CountOf(warnings[r], LAMBDA w : w.kind = "dinner")
                   = (IF AfterDinner(r) THEN 1 ELSE 0)
            /\ (pc[r] = "family" => ENABLED Family(r))
            /\ (AfterFamily(r) => CountOf(result[r], LAMBDA x : x.type = "family") = 1)
            /\ (pc[r] = "fetch" => ENABLED FetchTasks(r))
            /\ (pc[r] = "done" => Len(scanLog[r]) = Len(db))

\* a finished run without dinner in which a backlog item was still placed
C10_Witness ==
    /\ pc[1] = "done"
    /\ AllDinnerCandidatesTaken(1)
    /\ \E i \in DOMAIN scanLog[1] : scanLog[1][i].placed
    /\ \E i \in DOMAIN result[1] : result[1][i].type = "family"

(***************************************************************************)
(* Properties of the output of a run (checked under Spec)                  *)
(***************************************************************************)
FamilySlots(r) == { i \in DOMAIN result[r] : result[r][i].type = "family" }

\* C11: once the family stage has run, the output holds exactly one family block,
\* from clock 20:00 to clock 24:00.
C11_FamilyBlock2000To2400 ==
    \A r \in Runs :
        AfterFamily(r) =>
            /\ Cardinality(FamilySlots(r)) = 1
            /\ \A i \in FamilySlots(r) :
                  result[r][i].start = <<20, 0>> /\ result[r][i].end = <<24, 0>>

\* occurrences of x in a sequence
Occurrences(seq, x) == Cardinality({ i \in DOMAIN seq : seq[i] = x })

\* C12: every fixed event of the request is in the output with the start clock, end
\* clock and label it was supplied with, as often as it was supplied, and is in the
\* working set at its supplied interval, at every point of the run, also when
\* fixed events overlap each other.
C12_FixedEventsVerbatim ==
    \A r \in Runs :
        Started(r) =>
            /\ \A i \in DOMAIN body[r] :
                  /\ i \in DOMAIN blocks[r]
                  /\ blocks[r][i].type = "fixed"
                  /\ blocks[r][i].title = body[r][i].title
                  /\ blocks[r][i].start = body[r][i].start[1] * 3600 + body[r][i].start[2] * 60
                  /\ blocks[r][i].end = body[r][i].end[1] * 3600 + body[r][i].end[2] * 60
                  /\ Occurrences(result[r], [start |-> body[r][i].start, end |-> body[r][i].end,
                                             title |-> body[r][i].title, type |-> "fixed"])
                         = Occurrences(body[r], body[r][i])
            /\ Cardinality({ i \in DOMAIN result[r] : result[r][i].type = "fixed" }) = Len(body[r])
            /\ Cardinality({ i \in DOMAIN blocks[r] : blocks[r][i].type = "fixed" }) = Len(body[r])

\* a finished run whose two fixed events overlap, one of them ending at 24:00
C12_Witness ==
    /\ pc[1] = "done"
    /\ Len(body[1]) = 2
    /\ Overlap(blocks[1][1], blocks[1][2])
    /\ \E i \in DOMAIN result[1] : result[1][i].type = "fixed" /\ result[1][i].end = <<24, 0>>
    /\ \E i \in DOMAIN blocks[1] : blocks[1][i].type = "reply"

\* the step times of the reply loop: planStart + 180k minutes, while before 20:00
ReplyStepTimes(r) ==
    { planStart[r] + k * 180 * 60 : k \in { n \in 0..8 : planStart[r] + n * 180 * 60 < At(20, 0) } }

ReplyStarts(r) ==
    { blocks[r][i].start : i \in { n \in DOMAIN blocks[r] : blocks[r][n].type = "reply" } }

ReplySlotIndexes(r) == { i \in DOMAIN result[r] : result[r][i].type = "reply" }

\* C13: the reply loop visits exactly the times planStart + 180k minutes that are
\* before 20:00, whatever happened to earlier windows; with no fixed events every
\* step yields a 15-minute window at its step time (09:15, 12:15, 15:15, 18:15 and
\* no others for now = 09:00).
C13_ReplyStepTimes ==
    \A r \in Runs :
        Started(r) =>
            /\ currentReplyTime[r] >= planStart[r]
            /\ (currentReplyTime[r] - planStart[r]) % (180 * 60) = 0
            /\ \/ currentReplyTime[r] = planStart[r]
               \/ currentReplyTime[r] - 180 * 60 < At(20, 0)
            /\ (pc[r] # "reply" => currentReplyTime[r] >= At(20, 0))
            /\ body[r] = << >> =>
                  /\ ReplyStarts(r) = { t \in ReplyStepTimes(r) : t < currentReplyTime[r] }
                  /\ \A i \in DOMAIN blocks[r] :
                        blocks[r][i].type = "reply" =>
                            blocks[r][i].end = blocks[r][i].start + 15 * 60
                  /\ Cardinality(ReplySlotIndexes(r)) = Cardinality(ReplyStarts(r))
            /\ (body[r] = << >> /\ now[r] = At(9, 0) /\ pc[r] # "reply") =>
                  { << result[r][i].start, result[r][i].end >> : i \in ReplySlotIndexes(r) }
                      = { << <<9, 15>>, <<9, 30>> >>, << <<12, 15>>, <<12, 30>> >>,
                          << <<15, 15>>, <<15, 30>> >>, << <<18, 15>>, <<18, 30>> >> }

\* now = 09:00 without fixed events: four reply windows in the finished run
C13_Witness ==
    /\ pc[1] = "done"
    /\ now[1] = At(9, 0)
    /\ body[1] = << >>
    /\ Cardinality(ReplySlotIndexes(1)) = 4
    /\ currentReplyTime[1] = At(21, 15)

WarningsOf(r, kind) == { i \in DOMAIN warnings[r] : warnings[r][i].kind = kind }
BlocksOf(r, type) == { i \in DOMAIN blocks[r] : blocks[r][i].type = type }
AfterLunch(r) == pc[r] \in {"dinner", "family", "fetch", "backlog", "done"}

\* C14: the warnings are exactly one for lunch iff the lunch stage committed no
\* lunch block, one for dinner iff the dinner stage committed no dinner block, and
\* one per task that was not placed; a reply window that is dropped adds none.
C14_WarningsExact ==
    \A r \in Runs :
        Started(r) =>
            /\ Cardinality(BlocksOf(r, "lunch")) <= 1
            /\ Cardinality(BlocksOf(r, "dinner")) <= 1
            /\ Cardinality(WarningsOf(r, "lunch"))
                   = (IF AfterLunch(r) /\ BlocksOf(r, "lunch") = {} THEN 1 ELSE 0)
            /\ Cardinality(WarningsOf(r, "dinner"))
                   = (IF AfterDinner(r) /\ BlocksOf(r, "dinner") = {} THEN 1 ELSE 0)
            /\ \A i \in DOMAIN scanLog[r] :
                  Cardinality({ w \in WarningsOf(r, "task") :
                                   /\ warnings[r][w].title = ToString(scanLog[r][i].id)
                                   /\ warnings[r][w].minutes = scanLog[r][i].minutes })
                      = (IF scanLog[r][i].placed THEN 0 ELSE 1)
            /\ Cardinality(WarningsOf(r, "task"))
                   = Cardinality({ i \in DOMAIN scanLog[r] : ~scanLog[r][i].placed })
            /\ Len(warnings[r]) = Cardinality(WarningsOf(r, "lunch"))
                                    + Cardinality(WarningsOf(r, "dinner"))
                                    + Cardinality(WarningsOf(r, "task"))
            /\ (pc[r] = "reply" => warnings[r] = << >>)

\* a finished run in which every reply window was dropped, lunch and a task were
\* warned and dinner was placed
C14_Witness ==
    /\ pc[1] = "done"
    /\ ReplyStepTimes(1) # {}
    /\ ReplyStarts(1) = {}
    /\ WarningsOf(1, "lunch") # {}
    /\ WarningsOf(1, "task") # {}
    /\ BlocksOf(1, "dinner") # {}

(***************************************************************************)
(* The scenarios of the specification's test list, as runs of the handler  *)
(***************************************************************************)
\* Scenario A: now = 09:00, no fixed events, one deep item of 120 minutes
ScenarioATable == << [minutes |-> 120, priority |-> "high", category |-> "future"] >>

\* Scenario B: the only fixed event is 12:00-13:00; invocation times around those
\* whose preferred lunch block (now + 6 h, 60 minutes) meets it
ScenarioBBody == << [start |-> Clock(12, 0), end |-> Clock(13, 0), title |-> "meeting"] >>
ScenarioBNows ==
    { At(4, 50) + k * 5 * 60 : k \in 0..28 } \cup { At(5, 0) + 30, At(6, 45) + 30 }

InitScenarios ==
    /\ pc = [r \in Runs |-> IF r = 1 THEN "request" ELSE "idle"]
    /\ \/ /\ now = [r \in Runs |-> IF r = 1 THEN At(9, 0) ELSE 0]
          /\ body = [r \in Runs |-> << >>]
          /\ db = ScenarioATable
       \/ /\ now \in [Runs -> ScenarioBNows \cup {0}]
          /\ \A r \in Runs : (now[r] = 0) <=> (r # 1)
          /\ body = [r \in Runs |-> IF r = 1 THEN ScenarioBBody ELSE << >>]
          /\ db \in SeqsUpTo(TaskPool, MaxTasks)
    /\ planStart = [r \in Runs |-> 0]
    /\ blocks = [r \in Runs |-> << >>]
    /\ result = [r \in Runs |-> << >>]
    /\ warnings = [r \in Runs |-> << >>]
    /\ currentReplyTime = [r \in Runs |-> 0]
    /\ tasks = [r \in Runs |-> << >>]
    /\ tasksToPlace = [r \in Runs |-> << >>]
    /\ taskIdx = [r \in Runs |-> 0]
    /\ currentTime = [r \in Runs |-> 0]
    /\ scanLog = [r \in Runs |-> << >>]
    /\ call = NoCall

SpecScenarios == InitScenarios /\ [][Next]_vars

InScenarioA(r) == now[r] = At(9, 0) /\ body[r] = << >> /\ db = ScenarioATable

\* a 60-minute block from s that ends by 20:00 and overlaps nothing of the working set
FreeLunchAt(r, s) ==
    /\ s + 60 * 60 <= At(20, 0)
    /\ \A i \in DOMAIN blocks[r] :
          blocks[r][i].type # "lunch" =>
              ~Overlap([start |-> s, end |-> s + 60 * 60], blocks[r][i])

LunchStarts(r) == { blocks[r][i].start : i \in BlocksOf(r, "lunch") }

\* C15 as stated: in Scenario A lunch is placed at the earliest start on the
\* 15-minute grid from planStart whose 60-minute block is free.
C15_LunchAtFirstFreeSlot ==
    \A r \in Runs :
        (InScenarioA(r) /\ pc[r] = "dinner") =>
            \E s \in LunchStarts(r) :
                /\ FreeLunchAt(r, s)
                /\ \A k \in 0..96 :
                      FreeLunchAt(r, planStart[r] + k * 15 * 60) => s <= planStart[r] + k * 15 * 60

\* C15 amended: in Scenario A lunch is targeted at 15:00 and placed at 15:30, the
\* first free 60-minute slot at or after the target (15:00 and 15:15 meet the
\* 15:15 reply window), not at 09:30, the first free slot after planStart.
C15_LunchAtFirstFreeSlotFromTarget ==
    \A r \in Runs :
        (InScenarioA(r) /\ AfterLunch(r)) =>
            /\ LunchStarts(r) = { At(15, 30) }
            /\ \A i \in BlocksOf(r, "lunch") : blocks[r][i].end = At(16, 30)
            /\ \E i \in DOMAIN result[r] :
                  /\ result[r][i].type = "lunch"
                  /\ result[r][i].start = <<15, 30>> /\ result[r][i].end = <<16, 30>>
            /\ WarningsOf(r, "lunch") = {}
            /\ pc[r] = "dinner" =>
                  /\ FreeLunchAt(r, At(15, 30))
                  /\ ~FreeLunchAt(r, At(15, 0)) /\ ~FreeLunchAt(r, At(15, 15))
                  /\ FreeLunchAt(r, At(9, 30))

\* Scenario A finished: lunch at 15:30 and the 120-minute item placed
C15_Witness ==
    /\ InScenarioA(1)
    /\ pc[1] = "done"
    /\ LunchStarts(1) = { At(15, 30) }
    /\ \E i \in DOMAIN scanLog[1] : scanLog[1][i].placed /\ scanLog[1][i].minutes = 120

\* the lunch target of a run: ceil15(now + 6 h), by the rounding of lines 67-77
LunchTarget(r) == ceil15(now[r] + 6 * 3600)

\* Scenario B with an invocation time whose preferred lunch block meets 12:00-13:00
InScenarioB(r) ==
    /\ body[r] = ScenarioBBody
    /\ Overlap([start |-> LunchTarget(r), end |-> LunchTarget(r) + 60 * 60],
               [start |-> At(12, 0), end |-> At(13, 0)])

\* C16: in Scenario B lunch is not dropped: no lunch warning, and one 60-minute
\* lunch block that overlaps neither the fixed event nor a reply window and
\* starts within +90 / -180 minutes of the preferred start, not at it.
C16_LunchRelocatedNotDropped ==
    \A r \in Runs :
        (InScenarioB(r) /\ AfterLunch(r)) =>
            /\ WarningsOf(r, "lunch") = {}
            /\ Cardinality(BlocksOf(r, "lunch")) = 1
            /\ \A i \in BlocksOf(r, "lunch") :
                  /\ blocks[r][i].end = blocks[r][i].start + 60 * 60
                  /\ blocks[r][i].start # LunchTarget(r)
                  /\ blocks[r][i].start <= LunchTarget(r) + 90 * 60
                  /\ blocks[r][i].start >= LunchTarget(r) - 180 * 60
                  /\ \A j \in BlocksOf(r, "fixed") \cup BlocksOf(r, "reply") :
                        ~Overlap(blocks[r][i], blocks[r][j])
            /\ \E i \in DOMAIN result[r] : result[r][i].type = "lunch"

\* Scenario B finished with lunch moved to before the fixed event
C16_Witness ==
    /\ InScenarioB(1)
    /\ pc[1] = "done"
    /\ \E i \in BlocksOf(1, "lunch") : blocks[1][i].end <= At(12, 0)

\* the ids of a sequence of task rows or of scan records, in order
IdsOf(seq) == [i \in DOMAIN seq |-> seq[i].id]

\* C17: the backlog is processed deep items first (45 minutes and more), then
\* light items, each group in its incoming order: every scan so far is of the
\* next item of that order, and no other key reorders the items.
C17_DeepThenLightInIncomingOrder ==
    \A r \in Runs :
        /\ \A i, j \in DOMAIN scanLog[r] :
              i < j =>
                  LET a == TaskOf(r, scanLog[r][i].id)
                      b == TaskOf(r, scanLog[r][j].id)
                  IN /\ IsDeep(b) => IsDeep(a)
                     /\ (IsDeep(a) <=> IsDeep(b)) =>
                            PositionOf(r, a.id) < PositionOf(r, b.id)
        /\ pc[r] = "done" =>
              /\ Len(scanLog[r]) = Len(tasks[r])
              /\ { scanLog[r][i].id : i \in DOMAIN scanLog[r] } =
                     { tasks[r][i].id : i \in DOMAIN tasks[r] }

\* a 45-minute item is processed before a light item that came in ahead of it
C17_Witness ==
    /\ pc[1] = "done"
    /\ \E i, j \in DOMAIN scanLog[1] :
          /\ i < j
          /\ scanLog[1][i].minutes = 45
          /\ scanLog[1][j].minutes < 45
          /\ PositionOf(1, scanLog[1][j].id) < PositionOf(1, scanLog[1][i].id)

\* a clock string as minutes of the day
ClockMinutes(c) == c[1] * 60 + c[2]
SlotTypes(r) == { result[r][i].type : i \in DOMAIN result[r] }

\* C18: the returned sequence is ordered by non-decreasing start time. Every
\* block starts on the base date, so the order of the zero-padded start clocks
\* is the chronological order, and every block is in the output.
C18_OutputSortedByStart ==
    \A r \in Runs :
        pc[r] = "done" =>
            /\ \A i, j \in DOMAIN result[r] :
                  i < j => ClockMinutes(result[r][i].start) <= ClockMinutes(result[r][j].start)
            /\ \A i \in DOMAIN blocks[r] :
                  /\ blocks[r][i].start >= 0
                  /\ blocks[r][i].start < At(24, 0)
                  /\ \E j \in DOMAIN result[r] :
                        /\ result[r][j].start = formatTime(blocks[r][i].start)
                        /\ result[r][j].type = blocks[r][i].type
                        /\ ClockMinutes(result[r][j].start) = blocks[r][i].start \div 60
            /\ Len(result[r]) = Len(blocks[r]) + 1

\* a finished run whose output has all six kinds of slot and a fixed event,
\* pushed first, that the sort moved behind a generated slot
C18_Witness ==
    /\ pc[1] = "done"
    /\ {"fixed", "reply", "lunch", "dinner", "family"} \subseteq SlotTypes(1)
    /\ Cardinality(SlotTypes(1)) >= 6
    /\ \E i, j \in DOMAIN result[1] :
          /\ i < j
          /\ result[1][i].type # "fixed"
          /\ result[1][j].type = "fixed"
          /\ ClockMinutes(result[1][i].start) < ClockMinutes(result[1][j].start)

\* rounds of the reply loop a run has made, and the most it can make
ReplyRounds(r) == (currentReplyTime[r] - planStart[r]) \div (180 * 60)
ReplyRoundsLimit(r) ==
    IF planStart[r] < endOfDay THEN (endOfDay - 1 - planStart[r]) \div (180 * 60) + 1 ELSE 0

\* passes of the while loop that the scan of one backlog item made
ScanPasses(e) ==
    IF e.placed THEN (e.start - e.from) \div (15 * 60) + 1
    ELSE (e.to - e.from) \div (15 * 60) + (IF e.to < dayEnd THEN 1 ELSE 0)
ScanPassesLimit(e) ==
    IF e.from < dayEnd THEN (dayEnd - 1 - e.from) \div (15 * 60) + 1 ELSE 0

\* C19: every run that has started ends with a response, whatever failed on
\* the way; the reply loop makes at most one round per 3 hours before 20:00 and
\* the scan of a backlog item at most one pass per 15 minutes before 20:00.
C19_EveryRunTerminates ==
    /\ \A r \in Runs : (pc[r] = "request") ~> (pc[r] = "done")
    /\ [](\A r \in Runs :
            /\ Started(r) => /\ ReplyRounds(r) >= 0
                             /\ ReplyRounds(r) <= ReplyRoundsLimit(r)
            /\ \A i \in DOMAIN scanLog[r] :
                  /\ ScanPasses(scanLog[r][i]) >= 0
                  /\ ScanPasses(scanLog[r][i]) <= ScanPassesLimit(scanLog[r][i])
            /\ Len(scanLog[r]) <= Len(tasksToPlace[r])
            /\ pc[r] = "done" => /\ Len(scanLog[r]) = Len(db)
                                 /\ Len(result[r]) >= 1)

\* a run that returned although a reply window, lunch and a backlog item all
\* failed to be placed
C19_Witness ==
    /\ pc[1] = "done"
    /\ WarningsOf(1, "lunch") # {}
    /\ WarningsOf(1, "task") # {}
    /\ Cardinality(ReplyStarts(1)) < Cardinality(ReplyStepTimes(1))

\* the stage that commits a block of a given type; backlog blocks carry the
\* category of their task
StageOf(type) ==
    IF type = "fixed" THEN 1 ELSE IF type = "reply" THEN 2
    ELSE IF type = "lunch" THEN 3 ELSE IF type = "dinner" THEN 4 ELSE 5

\* the stage a run is in
StageAt(r) ==
    CASE pc[r] \in {"idle", "request"} -> 0
      [] pc[r] = "reply" -> 2
      [] pc[r] = "dinner" -> 3
      [] pc[r] \in {"family", "fetch"} -> 4
      [] OTHER -> 5

IsPrefix(s, t) == Len(s) <= Len(t) /\ SubSeq(t, 1, Len(s)) = s
EarlierStageBlocks(r) == { i \in DOMAIN blocks[r] : StageOf(blocks[r][i].type) < 5 }
PlacedScans(r) == SelectSeq(scanLog[r], LAMBDA e : e.placed)
BacklogBlocks(r) == SelectSeq(blocks[r], LAMBDA b : StageOf(b.type) = 5)

\* C20: the working set grows at its end only, in stage order fixed, reply,
\* lunch, dinner, backlog: no block of an earlier stage stands after a block of
\* a later stage, a run holds no block of a stage it has not reached and all
\* fixed events once it is past the first, every backlog scan saw every block
\* of the four earlier stages, and backlog blocks stand in processing order.
C20_CommitInStageOrder ==
    /\ [][\A r \in Runs : pc[r] # "request" => IsPrefix(blocks[r], blocks'[r])]_vars
    /\ [](\A r \in Runs :
            /\ \A i, j \in DOMAIN blocks[r] :
                  i < j => StageOf(blocks[r][i].type) <= StageOf(blocks[r][j].type)
            /\ \A i \in DOMAIN blocks[r] : StageOf(blocks[r][i].type) <= StageAt(r)
            /\ Started(r) => Cardinality(BlocksOf(r, "fixed")) = Len(body[r])
            /\ \A i \in DOMAIN scanLog[r] :
                  scanLog[r][i].nblocks >= Cardinality(EarlierStageBlocks(r))
            /\ IdsOf(PlacedScans(r)) = [i \in DOMAIN BacklogBlocks(r) |-> PlacedScans(r)[i].id]
            /\ Len(BacklogBlocks(r)) = Len(PlacedScans(r))
            /\ \A i \in DOMAIN BacklogBlocks(r) :
                  /\ BacklogBlocks(r)[i].title = ToString(PlacedScans(r)[i].id)
                  /\ BacklogBlocks(r)[i].start = PlacedScans(r)[i].start)

\* a finished run whose working set holds blocks of all five stages
C20_Witness ==
    /\ pc[1] = "done"
    /\ { StageOf(blocks[1][i].type) : i \in DOMAIN blocks[1] } = 1..5
    /\ Len(BacklogBlocks(1)) = 2

Ceil15Done == call.fn = "ceil15" /\ call.done
IsQuarterBoundary(t) == t % (15 * 60) = 0

\* C21: ceil15(t) is the least exact 15-minute boundary (zero seconds) that is
\* >= t, for every timestamp at second granularity: it is a boundary, it is
\* >= t, no boundary lies in between, and applying it again changes nothing.
C21_CeilIsLeastBoundary ==
    Ceil15Done =>
        /\ IsQuarterBoundary(call.result)
        /\ call.result >= call.date
        /\ call.result - call.date < 15 * 60
        /\ IsQuarterBoundary(call.date) => call.result = call.date
        /\ ceil15(call.result) = call.result

FormatTimeDone == call.fn = "formatTime" /\ call.done
ParseTimeDone == call.fn = "parseTime" /\ call.done

\* C22: parseTime(formatTime(t)) = t for every timestamp with zero seconds from
\* 00:00 up to and including the 24:00 end-of-day marker, and parseTime("24:00")
\* is midnight of the following day.
C22_RoundTripWholeDay ==
    /\ FormatTimeDone => parseTime(call.result) = call.date
    /\ (ParseTimeDone /\ call.timeStr = Clock(24, 0)) => call.result = At(24, 0)

\* C22 as the code has it: the round trip holds from 00:00 to 23:59; the 24:00
\* marker parses to midnight of the following day, which prints as "00:00" and
\* so comes back as 00:00 of the base date.
C22_RoundTripBeforeMidnight ==
    /\ FormatTimeDone =>
          /\ call.date < At(24, 0) => parseTime(call.result) = call.date
          /\ call.date = At(24, 0) => /\ call.result = Clock(0, 0)
                                      /\ parseTime(call.result) = call.date - At(24, 0)
          /\ call.result \in ClockPool \ { Clock(24, 0) }
    /\ ParseTimeDone =>
          /\ call.result = call.timeStr[1] * 3600 + call.timeStr[2] * 60
          /\ call.timeStr = Clock(24, 0) => call.result = At(24, 0)
          /\ call.timeStr # Clock(24, 0) => formatTime(call.result) = call.timeStr
          /\ call.timeStr = Clock(24, 0) => formatTime(call.result) = Clock(0, 0)

\* the end-of-day marker has been formatted
C22_Witness == FormatTimeDone /\ call.date = At(24, 0)

(***************************************************************************)
(* The handler run from its first line to its response without another     *)
(* request in between: the schedule, warnings and working set it returns   *)
(***************************************************************************)
\* while (currentReplyTime < endOfDay), lines 1101-1140
RECURSIVE repliesAlone(_, _, _)
repliesAlone(t, st, lower) ==
    IF ~(t < endOfDay) THEN st
    ELSE LET replyBlock == replyBlockAt(t, st.blocks, lower)
         IN repliesAlone(t + Mins(3 * 60),
                         IF ~checkConflict(replyBlock, st.blocks)
                         THEN [st EXCEPT !.blocks = Append(@, replyBlock),
                                         !.result = Append(@, timeSlot(replyBlock, "reply"))]
                         ELSE st,
                         lower)

\* lines 1142-1173
lunchAlone(st, t0, lower) ==
    LET start == findAvailableSlot(ceil15(t0 + Mins(6 * 60)), 60, st.blocks, lower,
                                   parseTime(Clock(20, 0)))
        lunchBlock == [start |-> start, end |-> start + Mins(60), title |-> "lunch",
                       type |-> "lunch", minutes |-> 60]
    IN IF start # NONE
       THEN [st EXCEPT !.blocks = Append(@, lunchBlock),
                       !.result = Append(@, timeSlot(lunchBlock, "lunch"))]
       ELSE [st EXCEPT !.warnings = Append(@, [kind |-> "lunch", title |-> "", minutes |-> 60])]

\* lines 1175-1196
dinnerAlone(st) ==
    LET start == findDinnerSlot(st.blocks)
        dinnerBlock == [start |-> start, end |-> start + Mins(60), title |-> "dinner",
                        type |-> "dinner", minutes |-> 60]
    IN IF start # NONE
       THEN [st EXCEPT !.blocks = Append(@, dinnerBlock),
                       !.result = Append(@, timeSlot(dinnerBlock, "dinner"))]
       ELSE [st EXCEPT !.warnings = Append(@, [kind |-> "dinner", title |-> "", minutes |-> 60])]

\* lines 1198-1207
familyAlone(st) ==
    [st EXCEPT !.result = Append(@, [start |-> formatTime(parseTime(Clock(20, 0))),
                                     end |-> formatTime(parseTime(Clock(24, 0))),
                                     title |-> "family", type |-> "family"])]

\* for (const task of tasksToPlace), lines 1226-1270
RECURSIVE tasksAlone(_, _, _, _)
tasksAlone(i, list, cur, st) ==
    IF i > Len(list) THEN st
    ELSE LET task == list[i]
             scan == scanTask(cur, task.minutes, st.blocks)
             taskBlock == [start |-> scan.start, end |-> scan.start + Mins(task.minutes),
                           title |-> ToString(task.id), type |-> task.category,
                           minutes |-> task.minutes]
         IN tasksAlone(i + 1, list, scan.currentTime,
                       IF scan.placed
                       THEN [st EXCEPT !.blocks = Append(@, taskBlock),
                                       !.result = Append(@, timeSlot(taskBlock, ToString(task.id)))]
                       ELSE [st EXCEPT !.warnings =
                                Append(@, [kind |-> "task", title |-> ToString(task.id),
                                           minutes |-> task.minutes])])

\* lines 1059-1300
generateAlone(t0, events, table) ==
    LET lower == ceil15(t0 + Mins(15))
        fixed == [blocks |-> [i \in 1..Len(events) |-> fixedBlock(events[i])],
                  result |-> [i \in 1..Len(events) |-> fixedSlot(events[i])],
                  warnings |-> << >>]
        placed == tasksAlone(1, orderTasks(selectTasks(table)), lower,
                             familyAlone(dinnerAlone(lunchAlone(
                                 repliesAlone(lower, fixed, lower), t0, lower))))
    IN [placed EXCEPT !.result = sortByStart(@)]

\* what a run holds of its own
LocalState(r) ==
    << pc[r], now[r], body[r], planStart[r], blocks[r], result[r], warnings[r],
       currentReplyTime[r], tasks[r], tasksToPlace[r], taskIdx[r], currentTime[r],
       scanLog[r] >>

\* C23: two runs interleaved at any of their stages each use their own working
\* set, output and cursor: no step changes anything of more than one run, and
\* the schedule, warnings and working set of a finished run are those the same
\* request gives when it is handled alone.
C23_RunsAreIndependent ==
    /\ [][\A r, q \in Runs :
            (r # q /\ LocalState(r)' # LocalState(r)) => LocalState(q)' = LocalState(q)]_vars
    /\ [](\A r \in Runs :
            pc[r] = "done" =>
                LET alone == generateAlone(now[r], body[r], db)
                IN /\ result[r] = alone.result
                   /\ warnings[r] = alone.warnings
                   /\ blocks[r] = alone.blocks)

\* run 1 has answered a request with fixed events and backlog items while run 2,
\* on another request at another time, is in the middle of its backlog
C23_Witness ==
    /\ pc[1] = "done"
    /\ pc[2] = "backlog"
    /\ taskIdx[2] = 2
    /\ now[1] # now[2]
    /\ body[1] # body[2]
    /\ Len(scanLog[1]) = 2
    /\ Len(blocks[2]) >= 3

InBacklog(r) == pc[r] \in {"backlog", "done"}

\* C24: the backlog cursor never moves backward: every scan starts where the
\* one before it stopped (the first at planStart) and stops at or after where
\* it started; after a placement the cursor is the end of the placed block, so
\* a placed block starts at or after the end of every block placed before it.
C24_CursorNeverMovesBack ==
    \A r \in Runs :
        InBacklog(r) =>
            /\ currentTime[r] >= planStart[r]
            /\ scanLog[r] # << >> =>
                  /\ scanLog[r][1].from = planStart[r]
                  /\ scanLog[r][Len(scanLog[r])].to = currentTime[r]
            /\ \A i \in DOMAIN scanLog[r] :
                  LET e == scanLog[r][i]
                  IN /\ e.to >= e.from
                     /\ i > 1 => e.from = scanLog[r][i - 1].to
                     /\ e.placed => /\ e.start >= e.from
                                    /\ e.to = e.start + e.minutes * 60
                                    /\ e.to > e.from
            /\ \A i, j \in DOMAIN scanLog[r] :
                  (i < j /\ scanLog[r][i].placed /\ scanLog[r][j].placed) =>
                      scanLog[r][j].start >= scanLog[r][i].start + scanLog[r][i].minutes * 60

\* two items were placed, the first after the cursor had to step over a block
C24_Witness ==
    /\ pc[1] = "done"
    /\ Len(scanLog[1]) = 2
    /\ scanLog[1][1].placed
    /\ scanLog[1][2].placed
    /\ scanLog[1][1].start > scanLog[1][1].from

\* the candidate starts a scan tried before the one it stopped at
EarlierCandidates(e) ==
    { e.from + k * 15 * 60 : k \in { n \in 0..96 : e.from + n * 15 * 60 <
                                        (IF e.placed THEN e.start ELSE e.to) } }
TaskBlocksOf(r, id) == { i \in DOMAIN blocks[r] : blocks[r][i].title = ToString(id)
                                                  /\ StageOf(blocks[r][i].type) = 5 }

\* C25: a placed backlog block ends by 20:00 of the base date and is exactly as
\* long as its item; an item is given up, with a warning, at the first candidate
\* start whose end would be after 20:00: every candidate before it ended by
\* 20:00 and overlapped a block, and nothing later is tried.
C25_BacklogEndsBy2000 ==
    \A r \in Runs :
        \A i \in DOMAIN scanLog[r] :
            LET e == scanLog[r][i]
            IN /\ \A c \in EarlierCandidates(e) :
                      /\ c + e.minutes * 60 <= At(20, 0)
                      /\ \E n \in DOMAIN BlocksSeenBy(r, i) :
                            Overlap([start |-> c, end |-> c + e.minutes * 60],
                                    BlocksSeenBy(r, i)[n])
               /\ e.placed =>
                      /\ e.start + e.minutes * 60 <= At(20, 0)
                      /\ \A b \in TaskBlocksOf(r, e.id) :
                            /\ blocks[r][b].start = e.start
                            /\ blocks[r][b].end - blocks[r][b].start = e.minutes * 60
                            /\ blocks[r][b].end <= At(20, 0)
                            /\ blocks[r][b].end > blocks[r][b].start
                      /\ TaskBlocksOf(r, e.id) # {}
               /\ ~e.placed =>
                      /\ e.to + e.minutes * 60 > At(20, 0)
                      /\ e.start = NONE
                      /\ TaskBlocksOf(r, e.id) = {}
                      /\ \E w \in WarningsOf(r, "task") :
                            warnings[r][w].title = ToString(e.id)

\* one item was placed after earlier candidates had met a block, and another
\* was given up after earlier candidates had met a block
C25_Witness ==
    /\ pc[1] = "done"
    /\ \E i, j \in DOMAIN scanLog[1] :
          /\ scanLog[1][i].placed
          /\ EarlierCandidates(scanLog[1][i]) # {}
          /\ ~scanLog[1][j].placed
          /\ EarlierCandidates(scanLog[1][j]) # {}

\* C26: every reply window in the working set, at its step time or relocated,
\* is exactly 15 minutes long, starts at or after planStart and ends at or
\* before 20:00, whatever the seconds of the invocation time.
C26_ReplyWithinPlanStartAnd2000 ==
    \A r \in Runs :
        \A i \in BlocksOf(r, "reply") :
            /\ blocks[r][i].end - blocks[r][i].start = 15 * 60
            /\ blocks[r][i].start >= planStart[r]
            /\ blocks[r][i].end <= At(20, 0)

\* the handler with lines 1198-1207 taken out: no family block is made
generateWithoutFamily(t0, events, table) ==
    LET lower == ceil15(t0 + Mins(15))
        fixed == [blocks |-> [i \in 1..Len(events) |-> fixedBlock(events[i])],
                  result |-> [i \in 1..Len(events) |-> fixedSlot(events[i])],
                  warnings |-> << >>]
        placed == tasksAlone(1, orderTasks(selectTasks(table)), lower,
                             dinnerAlone(lunchAlone(repliesAlone(lower, fixed, lower),
                                                    t0, lower)))
    IN [placed EXCEPT !.result = sortByStart(@)]

\* C27: the family block is never in the working set: the step that makes it
\* leaves the working set as it is, and a finished run has the working set,
\* warnings and other output slots of a run that makes no family block, so
\* a dinner block inside 20:00-24:00 is kept next to the family slot.
C27_FamilyNeverInWorkingSet ==
    /\ [][\A r \in Runs : (pc[r] = "family" /\ pc'[r] # "family") =>
              /\ blocks'[r] = blocks[r]
              /\ warnings'[r] = warnings[r]
              /\ Len(result'[r]) = Len(result[r]) + 1]_vars
    /\ [](\A r \in Runs :
            /\ BlocksOf(r, "family") = {}
            /\ \A i \in DOMAIN blocks[r] : blocks[r][i].title # "family"
            /\ pc[r] = "done" =>
                  LET without == generateWithoutFamily(now[r], body[r], db)
                  IN /\ blocks[r] = without.blocks
                     /\ warnings[r] = without.warnings
                     /\ SelectSeq(result[r], LAMBDA x : x.type # "family") = without.result
                     /\ Cardinality(FamilySlots(r)) = 1)

\* a finished run whose dinner block lies inside 20:00-24:00, with both the
\* dinner slot and the family slot in the output
C27_Witness ==
    /\ pc[1] = "done"
    /\ \E i \in BlocksOf(1, "dinner") :
          /\ blocks[1][i].start >= At(20, 0)
          /\ blocks[1][i].end <= At(24, 0)
    /\ \E i, j \in DOMAIN result[1] :
          /\ result[1][i].type = "dinner"
          /\ result[1][j].type = "family"
          /\ ClockMinutes(result[1][i].start) >= ClockMinutes(result[1][j].start)
    /\ \E i \in DOMAIN scanLog[1] : scanLog[1][i].placed

\* C28: a block the generator commits (reply, lunch, dinner, backlog) overlaps
\* no block that is in the working set when it is committed, fixed events
\* included and overlapping fixed events too: the block a step appends is clear
\* of all blocks before the step, and in the working set, which is in commit
\* order, a block overlaps a later one only if the later one is a fixed event.
C28_CommittedBlockIsConflictFree ==
    /\ [][\A r \in Runs :
            (pc[r] # "request" /\ Len(blocks'[r]) > Len(blocks[r])) =>
                /\ Len(blocks'[r]) = Len(blocks[r]) + 1
                /\ LET new == blocks'[r][Len(blocks'[r])]
                   IN /\ new.type # "fixed"
                      /\ \A i \in DOMAIN blocks[r] : ~Overlap(new, blocks[r][i])
                      /\ ~checkConflict(new, blocks[r])]_vars
    /\ [](\A r \in Runs :
            \A i, j \in DOMAIN blocks[r] :
                (i < j /\ Overlap(blocks[r][i], blocks[r][j])) =>
                    blocks[r][j].type = "fixed")

\* a finished run with two overlapping fixed events, one of them across the
\* dinner candidates, and a reply, a dinner and a backlog block placed clear
\* of them
C28_Witness ==
    /\ pc[1] = "done"
    /\ \E i, j \in BlocksOf(1, "fixed") : i < j /\ Overlap(blocks[1][i], blocks[1][j])
    /\ \E i \in BlocksOf(1, "fixed") : blocks[1][i].end > At(20, 0)
    /\ BlocksOf(1, "reply") # {}
    /\ BlocksOf(1, "dinner") # {}
    /\ \E i \in DOMAIN blocks[1] : StageOf(blocks[1][i].type) = 5

SlotsTitled(r, id) == { i \in DOMAIN result[r] : result[r][i].title = ToString(id)
                                                 /\ StageOf(result[r][i].type) = 5 }
WarningsNaming(r, id) == { w \in WarningsOf(r, "task") : warnings[r][w].title = ToString(id) }
ScansOf(r, id) == { i \in DOMAIN scanLog[r] : scanLog[r][i].id = id }

\* C29: every backlog item has exactly one outcome: in a finished run it was
\* scanned once and has either one output slot and one block and no warning,
\* or one warning and no slot and no block; before its scan it has none of them.
C29_OneOutcomePerItem ==
    \A r \in Runs :
        /\ \A i \in DOMAIN tasks[r] :
              LET id == tasks[r][i].id
                  slots == Cardinality(SlotsTitled(r, id))
                  blks == Cardinality(TaskBlocksOf(r, id))
                  warns == Cardinality(WarningsNaming(r, id))
              IN /\ Cardinality(ScansOf(r, id)) <= 1
                 /\ ScansOf(r, id) = {} => slots = 0 /\ blks = 0 /\ warns = 0
                 /\ ScansOf(r, id) # {} =>
                       \/ slots = 1 /\ blks = 1 /\ warns = 0
                       \/ slots = 0 /\ blks = 0 /\ warns = 1
                 /\ pc[r] = "done" => Cardinality(ScansOf(r, id)) = 1
        /\ Cardinality(WarningsOf(r, "task")) + Cardinality(UNION { TaskBlocksOf(r, tasks[r][i].id) : i \in DOMAIN tasks[r] })
               = Len(scanLog[r])
        /\ pc[r] = "done" => Len(tasks[r]) = Len(db)

\* a finished run with one item placed and one item warned
C29_Witness ==
    /\ pc[1] = "done"
    /\ Len(tasks[1]) = 2
    /\ \E i, j \in DOMAIN tasks[1] :
          /\ SlotsTitled(1, tasks[1][i].id) # {}
          /\ WarningsNaming(1, tasks[1][j].id) # {}

\* C30: once an item of duration d has been warned, every item processed after
\* it with a duration of d or more is warned too, also when the day has free
\* time for it before the cursor.
C30_FailureMonotoneInDuration ==
    \A r \in Runs :
        \A i, j \in DOMAIN scanLog[r] :
            (i < j /\ ~scanLog[r][i].placed /\ scanLog[r][j].minutes >= scanLog[r][i].minutes) =>
                /\ ~scanLog[r][j].placed
                /\ WarningsNaming(r, scanLog[r][j].id) # {}
                /\ scanLog[r][j].to = scanLog[r][j].from

\* a longer item was warned after a shorter one although the day, counted from
\* midnight, has a free stretch of its length that ends by 20:00
C30_Witness ==
    /\ pc[1] = "done"
    /\ \E i, j \in DOMAIN scanLog[1] :
          /\ i < j
          /\ ~scanLog[1][i].placed
          /\ ~scanLog[1][j].placed
          /\ scanLog[1][j].minutes > scanLog[1][i].minutes
          /\ FreeCandidateFrom(At(0, 0), scanLog[1][j].minutes, BlocksSeenBy(1, j))

====
